---- MODULE Spec2Model ----
(***************************************************************************)
(* Model of the ACP protocol adapter (rest/python/server/routes/acp.py):   *)
(* the status mapper, the checkout-to-session translator, the five request *)
(* handlers and their error mapping.  The checkout engine                  *)
(* (services.checkout_service) is an external collaborator: every reply it *)
(* gives, a checkout or a raised failure text, is a nondeterministic input *)
(* of the handler that calls it.                                           *)
(*                                                                         *)
(* Representation.                                                         *)
(*   - A Python str that the code inspects (status, failure text,          *)
(*     idempotency key) is a sequence of one-character strings, so that    *)
(*     str.lower(), the `in` substring test and prefixes are computed.     *)
(*   - Any other str (ids, titles, e-mails, tokens) is a TLA+ string.      *)
(*   - An Optional value is None (<<>>) or Some(v) (<<v>>).                *)
(*   - A dict is a record; a key the dict does not hold is a field the     *)
(*     record does not have, read with Get(d, k, default).                 *)
(***************************************************************************)
EXTENDS Integers, Sequences, FiniteSets, TLC

VARIABLES
    op,      \* the handler (or translator call) that ran last
    req,     \* its inputs: path id, Idempotency-Key header, body
    calls,   \* the engine calls it made, in order, each with its outcome
    resp     \* what it answered: HTTP code, error detail, session

vars == <<op, req, calls, resp>>

----------------------------------------------------------------------------
(* Bounds of the model.                                                    *)

\* longest list of line items (engine side and request side)
MaxItems == 2
\* longest engine totals list
MaxTotals == 2
\* most fragments concatenated into one engine failure text
MaxErrParts == 2

----------------------------------------------------------------------------
(* Python values.                                                          *)

None == <<>>
Some(v) == <<v>>
IsNone(o) == o = <<>>
Val(o) == o[1]

\* dict.get(k, default)
Get(d, k, dflt) == IF k \in DOMAIN d THEN d[k] ELSE dflt

\* dict.get(k): None when the key is absent; the value is wrapped otherwise
GetOpt(d, k) == IF k \in DOMAIN d THEN Some(d[k]) ELSE None

\* `o or dflt` for an Optional[str] o held as None / Some(TLA+ string)
StrOr(o, dflt) == IF IsNone(o) \/ Val(o) = "" THEN dflt ELSE Val(o)

UpperChars ==
    <<"A","B","C","D","E","F","G","H","I","J","K","L","M",
      "N","O","P","Q","R","S","T","U","V","W","X","Y","Z">>
LowerChars ==
    <<"a","b","c","d","e","f","g","h","i","j","k","l","m",
      "n","o","p","q","r","s","t","u","v","w","x","y","z">>

LowerChar(c) ==
    IF \E i \in 1..Len(UpperChars) : UpperChars[i] = c
    THEN LowerChars[CHOOSE i \in 1..Len(UpperChars) : UpperChars[i] = c]
    ELSE c

UpperChar(c) ==
    IF \E i \in 1..Len(LowerChars) : LowerChars[i] = c
    THEN UpperChars[CHOOSE i \in 1..Len(LowerChars) : LowerChars[i] = c]
    ELSE c

\* str.lower()
Lower(s) == [i \in 1..Len(s) |-> LowerChar(s[i])]
\* str.upper() and str.capitalize(): used only to build inputs
Upper(s) == [i \in 1..Len(s) |-> UpperChar(s[i])]
Capitalize(s) == [i \in 1..Len(s) |-> IF i = 1 THEN UpperChar(s[i]) ELSE LowerChar(s[i])]

\* `sub in s`
Contains(sub, s) ==
    \E i \in 0..(Len(s) - Len(sub)) : SubSeq(s, i + 1, i + Len(sub)) = sub

\* s.startswith(p)
StartsWith(s, p) == Len(s) >= Len(p) /\ SubSeq(s, 1, Len(p)) = p

\* `s or dflt` for an Optional[str] o held as None / Some(character sequence)
CharsOr(o, dflt) == IF IsNone(o) \/ Val(o) = <<>> THEN dflt ELSE Val(o)

----------------------------------------------------------------------------
(* String literals of the source.                                          *)

S_in_progress == <<"i","n","_","p","r","o","g","r","e","s","s">>
S_ready_for_complete == <<"r","e","a","d","y","_","f","o","r","_","c","o","m","p","l","e","t","e">>
S_completed == <<"c","o","m","p","l","e","t","e","d">>
S_canceled == <<"c","a","n","c","e","l","e","d">>
S_open == <<"o","p","e","n">>
S_complete == <<"c","o","m","p","l","e","t","e">>
S_expired == <<"e","x","p","i","r","e","d">>

S_not_found == <<"n","o","t"," ","f","o","u","n","d">>
S_not_modifiable == <<"n","o","t"," ","m","o","d","i","f","i","a","b","l","e">>
S_fulfillment == <<"f","u","l","f","i","l","l","m","e","n","t">>
S_cannot_cancel == <<"c","a","n","n","o","t"," ","c","a","n","c","e","l">>

D_not_found == <<"C","h","e","c","k","o","u","t"," ","s","e","s","s","i","o","n"," ","n","o","t"," ","f","o","u","n","d">>
D_already_completed == <<"C","h","e","c","k","o","u","t"," ","a","l","r","e","a","d","y"," ","c","o","m","p","l","e","t","e","d">>
D_fulfillment_required == <<"F","u","l","f","i","l","l","m","e","n","t"," ","a","d","d","r","e","s","s"," ","a","n","d"," ","o","p","t","i","o","n"," ","m","u","s","t"," ","b","e"," ","s","e","l","e","c","t","e","d">>
D_cannot_cancel == <<"C","h","e","c","k","o","u","t"," ","s","e","s","s","i","o","n"," ","c","a","n","n","o","t"," ","b","e"," ","c","a","n","c","e","l","e","d"," ","(","a","l","r","e","a","d","y"," ","c","o","m","p","l","e","t","e","d"," ","o","r"," ","c","a","n","c","e","l","e","d",")">>

P_acp == <<"a","c","p","_">>
P_acp_upd == <<"a","c","p","_","u","p","d","_">>
P_acp_complete == <<"a","c","p","_","c","o","m","p","l","e","t","e","_">>
P_acp_cancel == <<"a","c","p","_","c","a","n","c","e","l","_">>

\* the closed set of ACPCheckoutSession.status
ACPStatuses == {S_open, S_complete, S_canceled, S_expired}

----------------------------------------------------------------------------
(* Status mapper.                                                          *)

\* the mapping dict of _map_ucp_status_to_acp, as its list of (key, value)
status_mapping ==
    << <<S_in_progress, S_open>>,
       <<S_ready_for_complete, S_open>>,
       <<S_completed, S_complete>>,
       <<S_canceled, S_canceled>> >>

\* a mapper that forgets to lower-case its argument
map_status_case_sensitive(ucp_status) ==
    LET hits == {i \in 1..Len(status_mapping) : status_mapping[i][1] = ucp_status}
    IN  IF hits = {} THEN S_open ELSE status_mapping[CHOOSE i \in hits : TRUE][2]

\* mapping.get(ucp_status.lower(), "open")
map_ucp_status_to_acp(ucp_status) ==
    LET key == Lower(ucp_status)
        hits == {i \in 1..Len(status_mapping) : status_mapping[i][1] = key}
    IN  IF hits = {} THEN S_open ELSE status_mapping[CHOOSE i \in hits : TRUE][2]

----------------------------------------------------------------------------
(* Translator: engine checkout dict -> ACP checkout session.               *)

\* a line-item mapper that reports the unit price as the line total
acp_line_item_unit_total(li, fresh_id) ==
    LET item == Get(li, "item", <<>>)
        quantity == Get(li, "quantity", 1)
        price == Get(item, "price", 0)
    IN  [id |-> Get(li, "id", fresh_id),
         sku |-> Get(item, "id", ""),
         name |-> Get(item, "title", "Unknown"),
         quantity |-> quantity,
         unit_price |-> price,
         total_price |-> price]

\* the body of the loop over ucp_checkout["line_items"]: one ACPLineItem;
\* fresh_id is the str(uuid.uuid4()) evaluated for the default of li.get("id")
acp_line_item(li, fresh_id) ==
    LET item == Get(li, "item", <<>>)
        quantity == Get(li, "quantity", 1)
        price == Get(item, "price", 0)
    IN  [id |-> Get(li, "id", fresh_id),
         sku |-> Get(item, "id", ""),
         name |-> Get(item, "title", "Unknown"),
         quantity |-> quantity,
         unit_price |-> price,
         total_price |-> price * quantity]

\* an extractor that lets a later entry with the same tag overwrite
next_amount_last(totals, tag) ==
    LET hits == {i \in 1..Len(totals) : totals[i].type = tag}
    IN  IF hits = {} THEN None
        ELSE Some(totals[CHOOSE i \in hits : \A j \in hits : j <= i].amount)

\* next((t["amount"] for t in totals if t["type"] == tag), <default>): the
\* generator is consumed up to its first element.  The result is Some(amount),
\* or None where the code takes its default.
RECURSIVE next_amount(_, _)
next_amount(totals, tag) ==
    IF totals = <<>> THEN None
    ELSE IF Head(totals).type = tag THEN Some(Head(totals).amount)
    ELSE next_amount(Tail(totals), tag)

OrElse(o, dflt) == IF IsNone(o) THEN dflt ELSE Val(o)

\* the buyer block: ACPBuyer from ucp_checkout.get("buyer"), None when the
\* engine buyer is None (an empty dict, falsy too, is not represented)
acp_buyer_of(ucp_buyer) ==
    IF IsNone(ucp_buyer) THEN None
    ELSE Some([email |-> Get(Val(ucp_buyer), "email", None),
               name |-> Get(Val(ucp_buyer), "name", None),
               phone |-> Get(Val(ucp_buyer), "phone", None)])

payment_options ==
    << [id |-> "stripe", type |-> "card", provider |-> "stripe"],
       [id |-> "paypal", type |-> "wallet", provider |-> "paypal"] >>

\* _ucp_checkout_to_acp_session(ucp_checkout, fulfillment_options); fresh[i]
\* is the uuid4 drawn while line item i is mapped
ucp_checkout_to_acp_session(ucp_checkout, fulfillment_options, fresh) ==
    LET lis == Get(ucp_checkout, "line_items", <<>>)
        acp_items == [i \in 1..Len(lis) |-> acp_line_item(lis[i], fresh[i])]
        totals == Get(ucp_checkout, "totals", <<>>)
        subtotal == OrElse(next_amount(totals, "subtotal"), 0)
        total == OrElse(next_amount(totals, "total"), subtotal)
        shipping == next_amount(totals, "fulfillment")
        discount == next_amount(totals, "discount")
    IN  [id |-> Get(ucp_checkout, "id", ""),
         status |-> map_ucp_status_to_acp(Get(ucp_checkout, "status", S_in_progress)),
         items |-> acp_items,
         subtotal |-> subtotal,
         total |-> total,
         currency |-> Get(ucp_checkout, "currency", "USD"),
         buyer |-> acp_buyer_of(Get(ucp_checkout, "buyer", None)),
         fulfillment_options |-> fulfillment_options,
         payment_options |-> payment_options,
         shipping_cost |-> shipping,
         discount |-> discount]

----------------------------------------------------------------------------
(* Inputs: what callers send and what the engine answers.                  *)

SeqsUpTo(S, n) == UNION {[1..k -> S] : k \in 0..n}

Ids == {"cs_1", "cs_2"}

\* values of str(uuid.uuid4()); inside a character sequence a uuid is held
\* as one element
Uuids == {"uuid-1", "uuid-2"}

\* the Idempotency-Key header: absent, empty, or a caller's key (one of
\* them looks like a generated key of another operation)
Headers ==
    {None, Some(<<>>), Some(<<"k","1">>), Some(P_acp_cancel \o <<"x">>)}

Tokens == {"spt_A", "spt_B"}

\* ACPItem values of a request body
ACPItems ==
    {[sku |-> "sku_1", quantity |-> 2, price |-> None, name |-> Some("Widget")],
     [sku |-> "sku_2", quantity |-> 1, price |-> Some(100), name |-> None],
     [sku |-> "sku_3", quantity |-> 3, price |-> None, name |-> Some("")]}

\* body.items of an update: omitted, empty, given
UpdateItems ==
    {None, Some(<<>>),
     Some(<<[sku |-> "sku_9", quantity |-> 1, price |-> None, name |-> Some("Lamp")]>>)}

\* ACPBuyer values of a request body: omitted, an empty object, partial
ReqBuyers ==
    {None,
     Some([email |-> None, name |-> None, phone |-> None]),
     Some([email |-> Some("new@x.com"), name |-> None, phone |-> None])}

\* line items as the engine dumps them: every key present
LI_1 == [id |-> "li_1", item |-> [id |-> "sku_1", title |-> "Widget", price |-> 250], quantity |-> 2]
LI_2 == [id |-> "li_2", item |-> [id |-> "sku_2", title |-> "", price |-> 999], quantity |-> 1]
StoredLineItems == {LI_1, LI_2}
\* the line-item lists of a stored checkout: no line item twice
StoredLists ==
    {l \in SeqsUpTo(StoredLineItems, MaxItems) :
        \A i, j \in 1..Len(l) : i # j => l[i].id # l[j].id}

\* line-item dicts with missing keys, for the translator's defaults
SparseLineItems ==
    {[id |-> "li_3", item |-> [id |-> "sku_3", price |-> 40]],
     [item |-> [id |-> "sku_4", title |-> "Gadget"], quantity |-> 3],
     [id |-> "li_5", quantity |-> 2]}

TotalTags == {"subtotal", "total", "fulfillment", "discount", "tax"}
TotalEntries == {[type |-> t, amount |-> a] : t \in TotalTags, a \in {500, 999}}

StoredBuyers ==
    {None,
     Some([email |-> Some("a@b.com"), name |-> Some("Ann"), phone |-> None]),
     Some([email |-> Some("a@b.com")])}

BaseStatuses ==
    {S_in_progress, S_ready_for_complete, S_completed, S_canceled, S_expired,
     S_complete, <<"f","r","o","b","n","i","c","a","t","e","d">>, <<>>}
\* engine status strings: free-form, any case
Statuses ==
    BaseStatuses \cup {Upper(s) : s \in BaseStatuses}
                 \cup {Capitalize(s) : s \in BaseStatuses}

EngineTotals ==
    {<<>>,
     <<[type |-> "subtotal", amount |-> 500], [type |-> "fulfillment", amount |-> 999],
       [type |-> "total", amount |-> 1499]>>}

\* what engine.get returns to the update handler: the stored checkout
ExistingCheckouts ==
    [id \in Ids |->
        {[id |-> id, status |-> S_in_progress, line_items |-> l, totals |-> <<>>,
          buyer |-> b, currency |-> "USD"] :
            l \in StoredLists, b \in StoredBuyers}]

\* what an engine call returns to the handler that translates it
ResultCheckouts ==
    [id \in Ids |->
        {[id |-> id, status |-> S_in_progress, line_items |-> <<LI_1, LI_2>>,
          totals |-> t, buyer |-> None, currency |-> "USD"] : t \in EngineTotals}
        \cup
        {[id |-> id, status |-> Upper(S_completed), line_items |-> <<LI_2>>,
          totals |-> <<>>, buyer |-> b, currency |-> "USD"] : b \in StoredBuyers \ {None}}]

\* dicts handed to the translator directly: one field varied at a time
BaseDict ==
    [id |-> "cs_1", status |-> S_in_progress, line_items |-> <<LI_1>>,
     totals |-> <<>>, buyer |-> None, currency |-> "USD"]
UcpDicts ==
    {[BaseDict EXCEPT !.status = s] : s \in Statuses}
    \cup {[BaseDict EXCEPT !.line_items = l] :
            l \in SeqsUpTo(StoredLineItems \cup SparseLineItems, MaxItems)}
    \cup {[BaseDict EXCEPT !.totals = t] : t \in SeqsUpTo(TotalEntries, MaxTotals)}
    \cup {[BaseDict EXCEPT !.buyer = b] : b \in StoredBuyers}
    \cup {[id |-> "cs_1"], [status |-> S_canceled, currency |-> "EUR"]}

F_timeout == <<"t","i","m","e","o","u","t">>
\* pieces of engine failure texts: the keywords in several cases and an
\* unrelated word
ErrFragments ==
    {S_not_found, Upper(S_not_modifiable), Capitalize(S_fulfillment),
     S_cannot_cancel, F_timeout}

RECURSIVE JoinParts(_)
JoinParts(ps) ==
    IF Len(ps) = 0 THEN <<>>
    ELSE IF Len(ps) = 1 THEN ps[1]
    ELSE ps[1] \o <<":"," ">> \o JoinParts(Tail(ps))

\* str(e) of the exceptions the engine raises
ErrTexts == {JoinParts(ps) : ps \in SeqsUpTo(ErrFragments, MaxErrParts)}

----------------------------------------------------------------------------
(* Pieces of the handlers.                                                 *)

\* a key rule that tests the header for None only
idem_key_none_only(idempotency_key, prefix, uuid) ==
    IF IsNone(idempotency_key) THEN prefix \o <<uuid>> ELSE Val(idempotency_key)

\* idempotency_key or f"<prefix>{uuid.uuid4()}"
idem_key(idempotency_key, prefix, uuid) ==
    CharsOr(idempotency_key, prefix \o <<uuid>>)

\* create: the LineItemCreateRequest list built from body.items
create_line_items(items) ==
    [i \in 1..Len(items) |->
        [item |-> [id |-> items[i].sku, title |-> StrOr(items[i].name, "")],
         quantity |-> items[i].quantity]]

\* create: Buyer(email=body.buyer.email, name=body.buyer.name) when
\* body.buyer is given (a model instance is truthy)
create_buyer(body_buyer) ==
    IF IsNone(body_buyer) THEN None
    ELSE Some([email |-> Val(body_buyer).email, name |-> Val(body_buyer).name])

\* create: the two fixed fulfillment options
fulfillment_options ==
    << [id |-> "standard", name |-> "Standard Shipping", price |-> 999,
        estimated_delivery |-> Some("5-7 business days")],
       [id |-> "express", name |-> "Express Shipping", price |-> 1999,
        estimated_delivery |-> Some("2-3 business days")] >>

\* an update that builds the list from the request alone
update_line_items_from_body(body_items, existing_dict) ==
    LET items == IF IsNone(body_items) THEN <<>> ELSE Val(body_items)
    IN  [i \in 1..Len(items) |->
            [id |-> None,
             item |-> [id |-> items[i].sku, title |-> StrOr(items[i].name, "")],
             quantity |-> items[i].quantity]]

\* update: the LineItemUpdateRequest list; `if body.items:` is false for
\* None and for the empty list
update_line_items(body_items, existing_dict) ==
    IF ~IsNone(body_items) /\ Val(body_items) # <<>>
    THEN LET items == Val(body_items)
         IN  [i \in 1..Len(items) |->
                [id |-> None,
                 item |-> [id |-> items[i].sku, title |-> StrOr(items[i].name, "")],
                 quantity |-> items[i].quantity]]
    ELSE LET lis == Get(existing_dict, "line_items", <<>>)
         IN  [i \in 1..Len(lis) |->
                LET item == Get(lis[i], "item", <<>>)
                IN  [id |-> GetOpt(lis[i], "id"),
                     \* item.get("id"): a dumped item always holds its id
                     item |-> [id |-> item.id, title |-> Get(item, "title", "")],
                     quantity |-> Get(lis[i], "quantity", 1)]]

\* an update that forwards only the request's buyer
update_buyer_from_body(body_buyer, existing_dict) ==
    IF ~IsNone(body_buyer)
    THEN Some([email |-> Val(body_buyer).email, name |-> Val(body_buyer).name])
    ELSE None

\* update: the buyer forwarded to the engine: Buyer(email, name) from the
\* request when it has a buyer, else Buyer(**existing_dict["buyer"])
update_buyer(body_buyer, existing_dict) ==
    IF ~IsNone(body_buyer)
    THEN Some([email |-> Val(body_buyer).email, name |-> Val(body_buyer).name])
    ELSE IF ~IsNone(Get(existing_dict, "buyer", None))
    THEN Some(Val(existing_dict.buyer))
    ELSE None

\* complete: the PaymentCreateRequest; the credential is the literal
\* {"token": "success_token"}, body.payment_data is not read
complete_payment_request(body, instrument_id) ==
    [selected_instrument_id |-> instrument_id,
     instruments |->
        << [id |-> instrument_id,
            handler_id |-> "mock_payment_handler",
            credential |-> [token |-> "success_token"]] >>]

Err(code, detail) == [code |-> code, detail |-> Some(detail), session |-> None, order |-> None]
Ok(code, session, order) == [code |-> code, detail |-> None, session |-> Some(session), order |-> order]

\* create: except Exception -> 500, detail=str(e)
create_error(e) == Err(500, e)

\* retrieve: 404 on "not found", else 500
get_error(e) ==
    IF Contains(S_not_found, Lower(e)) THEN Err(404, D_not_found) ELSE Err(500, e)

\* update, first try block: any failure of engine.get answers 404
update_get_error(e) == Err(404, D_not_found)

\* update, second try block: 404 on "not found", else 500
update_error(e) ==
    IF Contains(S_not_found, Lower(e)) THEN Err(404, D_not_found) ELSE Err(500, e)

\* a complete classifier that tests "fulfillment" before "not modifiable"
complete_error_reordered(e) ==
    LET error_msg == Lower(e)
    IN  IF Contains(S_not_found, error_msg) THEN Err(404, D_not_found)
        ELSE IF Contains(S_fulfillment, error_msg) THEN Err(400, D_fulfillment_required)
        ELSE IF Contains(S_not_modifiable, error_msg) THEN Err(409, D_already_completed)
        ELSE Err(500, e)

\* complete: the except block
complete_error(e) ==
    LET error_msg == Lower(e)
    IN  IF Contains(S_not_found, error_msg) THEN Err(404, D_not_found)
        ELSE IF Contains(S_not_modifiable, error_msg) THEN Err(409, D_already_completed)
        ELSE IF Contains(S_fulfillment, error_msg) THEN Err(400, D_fulfillment_required)
        ELSE Err(500, e)

\* a cancel classifier that reuses the code of complete for a conflict
cancel_error_409(e) ==
    LET error_msg == Lower(e)
    IN  IF Contains(S_not_found, error_msg) THEN Err(404, D_not_found)
        ELSE IF Contains(S_not_modifiable, error_msg) \/ Contains(S_cannot_cancel, error_msg)
        THEN Err(409, D_cannot_cancel)
        ELSE Err(500, e)

\* cancel: the except block
cancel_error(e) ==
    LET error_msg == Lower(e)
    IN  IF Contains(S_not_found, error_msg) THEN Err(404, D_not_found)
        ELSE IF Contains(S_not_modifiable, error_msg) \/ Contains(S_cannot_cancel, error_msg)
        THEN Err(405, D_cannot_cancel)
        ELSE Err(500, e)

\* one engine call as the handler made it, with what the engine answered
Call(fn, id, request, key, result, error) ==
    [fn |-> fn, id |-> id, request |-> request, key |-> key,
     result |-> result, error |-> error]

\* the uuid4 values drawn for line-item ids while a checkout is translated
FreshIds == [1..MaxItems -> Uuids]
\* in a handler the engine's dump holds every line-item id and the drawn
\* values are dropped: one draw stands for all
DroppedIds == [i \in 1..MaxItems |-> "uuid-1"]

----------------------------------------------------------------------------
(* The handlers.  Each action is one whole request.                        *)

Init ==
    /\ op = "none"
    /\ req = [id |-> None]
    /\ calls = <<>>
    /\ resp = [code |-> 0, detail |-> None, session |-> None, order |-> None]

\* POST /checkout_sessions
create_checkout_session ==
    /\ op = "none"
    /\ \E items \in SeqsUpTo(ACPItems, MaxItems) \ {<<>>}, buyer \in ReqBuyers,
       idempotency_key \in Headers, uuid \in Uuids :
        LET ucp_request == [currency |-> "USD",
                            line_items |-> create_line_items(items),
                            buyer |-> create_buyer(buyer)]
            key == idem_key(idempotency_key, P_acp, uuid)
        IN  /\ op' = "create"
            /\ req' = [id |-> None, idempotency_key |-> idempotency_key,
                       items |-> Some(items), buyer |-> buyer]
            /\ \/ \E id \in Ids : \E checkout \in ResultCheckouts[id] :
                    /\ calls' = <<Call("create_checkout", None, Some(ucp_request),
                                       Some(key), Some(checkout), None)>>
                    /\ resp' = Ok(201, ucp_checkout_to_acp_session(
                                          checkout, Some(fulfillment_options), DroppedIds), None)
               \/ \E e \in ErrTexts :
                    /\ calls' = <<Call("create_checkout", None, Some(ucp_request),
                                       Some(key), None, Some(e))>>
                    /\ resp' = create_error(e)

\* GET /checkout_sessions/{id}
get_checkout_session ==
    /\ op = "none"
    /\ \E id \in Ids :
        /\ op' = "retrieve"
        /\ req' = [id |-> Some(id)]
        /\ \/ \E checkout \in ResultCheckouts[id] :
                /\ calls' = <<Call("get_checkout", Some(id), None, None, Some(checkout), None)>>
                /\ resp' = Ok(200, ucp_checkout_to_acp_session(checkout, None, DroppedIds), None)
           \/ \E e \in ErrTexts :
                /\ calls' = <<Call("get_checkout", Some(id), None, None, None, Some(e))>>
                /\ resp' = get_error(e)

\* an update handler that swallows a failure of engine.get and goes on to
\* call engine.update with the request's own items and buyer
update_checkout_session_after_failed_get ==
    /\ op = "none"
    /\ \E id \in Ids, idempotency_key \in Headers, uuid \in Uuids,
       items \in UpdateItems, buyer \in ReqBuyers, e1 \in ErrTexts, e2 \in ErrTexts :
        LET ucp_request ==
                [id |-> id,
                 line_items |-> update_line_items(items, [line_items |-> <<>>]),
                 currency |-> "USD",
                 buyer |-> update_buyer(buyer, [buyer |-> None])]
            key == idem_key(idempotency_key, P_acp_upd, uuid)
        IN  /\ op' = "update"
            /\ req' = [id |-> Some(id), idempotency_key |-> idempotency_key,
                       items |-> items, buyer |-> buyer]
            /\ calls' = <<Call("get_checkout", Some(id), None, None, None, Some(e1)),
                          Call("update_checkout", Some(id), Some(ucp_request),
                               Some(key), None, Some(e2))>>
            /\ resp' = update_error(e2)

\* POST /checkout_sessions/{id}
update_checkout_session ==
    /\ op = "none"
    /\ \E id \in Ids, idempotency_key \in Headers, uuid \in Uuids,
       items \in UpdateItems, buyer \in ReqBuyers :
        /\ op' = "update"
        /\ req' = [id |-> Some(id), idempotency_key |-> idempotency_key,
                   items |-> items, buyer |-> buyer]
        /\ \/ \E e \in ErrTexts :
                \* engine.get raised
                /\ calls' = <<Call("get_checkout", Some(id), None, None, None, Some(e))>>
                /\ resp' = update_get_error(e)
           \/ \E existing \in ExistingCheckouts[id] :
                LET get == Call("get_checkout", Some(id), None, None, Some(existing), None)
                    ucp_request ==
                        [id |-> id,
                         line_items |-> update_line_items(items, existing),
                         currency |-> Get(existing, "currency", "USD"),
                         buyer |-> update_buyer(buyer, existing)]
                    key == idem_key(idempotency_key, P_acp_upd, uuid)
                IN  \/ \E checkout \in ResultCheckouts[id] :
                        /\ calls' = <<get, Call("update_checkout", Some(id), Some(ucp_request),
                                                Some(key), Some(checkout), None)>>
                        /\ resp' = Ok(200, ucp_checkout_to_acp_session(checkout, None, DroppedIds), None)
                    \/ \E e \in ErrTexts :
                        /\ calls' = <<get, Call("update_checkout", Some(id), Some(ucp_request),
                                                Some(key), None, Some(e))>>
                        /\ resp' = update_error(e)

\* POST /checkout_sessions/{id}/complete
complete_checkout_session ==
    /\ op = "none"
    /\ \E id \in Ids, token \in Tokens, idempotency_key \in Headers,
       instrument_id \in Uuids, uuid \in Uuids, order_uuid \in Uuids :
        LET body == [payment_data |-> [token |-> token, provider |-> "stripe"]]
            payment_request == complete_payment_request(body, instrument_id)
            key == idem_key(idempotency_key, P_acp_complete, uuid)
        IN  /\ op' = "complete"
            /\ req' = [id |-> Some(id), idempotency_key |-> idempotency_key,
                       payment_data |-> body.payment_data]
            /\ \/ \E c \in ResultCheckouts[id] :
                  \E checkout \in {c, [id |-> c.id, status |-> c.status,
                                       line_items |-> c.line_items, totals |-> c.totals,
                                       buyer |-> c.buyer, currency |-> c.currency,
                                       order |-> [id |-> "order_1"]]} :
                    LET order_info == Get(checkout, "order", <<>>)
                        order == [id |-> Get(order_info, "id", order_uuid),
                                  status |-> "confirmed"]
                    IN  /\ calls' = <<Call("complete_checkout", Some(id), Some(payment_request),
                                           Some(key), Some(checkout), None)>>
                        /\ resp' = Ok(200, ucp_checkout_to_acp_session(checkout, None, DroppedIds),
                                      Some(order))
               \/ \E e \in ErrTexts :
                    /\ calls' = <<Call("complete_checkout", Some(id), Some(payment_request),
                                       Some(key), None, Some(e))>>
                    /\ resp' = complete_error(e)

\* POST /checkout_sessions/{id}/cancel
cancel_checkout_session ==
    /\ op = "none"
    /\ \E id \in Ids, idempotency_key \in Headers, uuid \in Uuids :
        LET key == idem_key(idempotency_key, P_acp_cancel, uuid)
        IN  /\ op' = "cancel"
            /\ req' = [id |-> Some(id), idempotency_key |-> idempotency_key]
            /\ \/ \E checkout \in ResultCheckouts[id] :
                    /\ calls' = <<Call("cancel_checkout", Some(id), None, Some(key),
                                       Some(checkout), None)>>
                    /\ resp' = Ok(200, ucp_checkout_to_acp_session(checkout, None, DroppedIds), None)
               \/ \E e \in ErrTexts :
                    /\ calls' = <<Call("cancel_checkout", Some(id), None, Some(key),
                                       None, Some(e))>>
                    /\ resp' = cancel_error(e)

\* a direct call of _ucp_checkout_to_acp_session on any engine dict
translate ==
    /\ op = "none"
    /\ \E ucp_checkout \in UcpDicts, fresh \in FreshIds :
        /\ op' = "translate"
        /\ req' = [id |-> None, ucp_checkout |-> ucp_checkout]
        /\ calls' = <<>>
        /\ resp' = Ok(200, ucp_checkout_to_acp_session(ucp_checkout, None, fresh), None)

\* the answer is sent; the worker holds nothing of the request afterwards
respond ==
    /\ op # "none"
    /\ op' = "none"
    /\ req' = [id |-> None]
    /\ calls' = <<>>
    /\ resp' = [code |-> 0, detail |-> None, session |-> None, order |-> None]

Next ==
    \/ respond
    \/ create_checkout_session
    \/ get_checkout_session
    \/ update_checkout_session
    \/ complete_checkout_session
    \/ cancel_checkout_session
    \/ translate

Spec == Init /\ [][Next]_vars

----------------------------------------------------------------------------
(* Properties.                                                             *)

\* the handler answered with a session
HasSession == resp.session # None
Session == Val(resp.session)

\* the engine checkout dict that was translated into the session
Translated ==
    IF op = "translate" THEN req.ucp_checkout ELSE Val(calls[Len(calls)].result)

\* the last engine call failed; FailText is str(e)
Failed == calls # <<>> /\ calls[Len(calls)].error # None
FailText == Val(calls[Len(calls)].error)

\* the request reached engine.update
UpdateSent == op = "update" /\ Len(calls) = 2
Existing == Val(calls[1].result)
UpdateRequest == Val(calls[2].request)

\* C1: the status of every assembled session is one of open, complete,
\* canceled, expired; the engine status, compared case-insensitively, maps
\* in_progress and ready_for_complete to open, completed to complete,
\* canceled to canceled, and every other string to open.
C1_StatusMapping ==
    HasSession =>
        /\ Session.status \in ACPStatuses
        /\ "status" \in DOMAIN Translated =>
            LET s == Lower(Translated.status)
            IN  /\ s \in {S_in_progress, S_ready_for_complete} => Session.status = S_open
                /\ s = S_completed => Session.status = S_complete
                /\ s = S_canceled => Session.status = S_canceled
                /\ s \notin {S_in_progress, S_ready_for_complete, S_completed, S_canceled}
                        => Session.status = S_open

\* an upper-case COMPLETED was translated to complete
C1_Witness ==
    /\ op = "translate"
    /\ HasSession
    /\ "status" \in DOMAIN Translated
    /\ Translated.status = Upper(S_completed)
    /\ Session.status = S_complete

\* C2: in every assembled session every line item has
\* total_price = unit_price * quantity, with unit_price the engine item's
\* price (0 when absent) and quantity the engine line item's quantity.
C2_LineTotals ==
    HasSession =>
        LET lis == Get(Translated, "line_items", <<>>)
        IN  /\ Len(Session.items) = Len(lis)
            /\ \A i \in 1..Len(lis) :
                LET out == Session.items[i]
                    li == lis[i]
                IN  /\ out.total_price = out.unit_price * out.quantity
                    /\ "quantity" \in DOMAIN li => out.quantity = li.quantity
                    /\ ("item" \in DOMAIN li /\ "price" \in DOMAIN li.item)
                            => out.unit_price = li.item.price
                    /\ ("item" \notin DOMAIN li \/ "price" \notin DOMAIN li.item)
                            => out.unit_price = 0

\* a session with a line of 2 x 250 = 500 and a line of quantity 3 whose
\* engine item has no price, totalling 0
C2_Witness ==
    /\ op = "translate"
    /\ HasSession
    /\ Len(Session.items) = 2
    /\ Session.items[1].quantity = 2
    /\ Session.items[1].unit_price = 250
    /\ Session.items[1].total_price = 500
    /\ "price" \notin DOMAIN Translated.line_items[2].item
    /\ Session.items[2].quantity = 3
    /\ Session.items[2].total_price = 0

\* the first index of totals tagged tag, 0 when there is none
FirstTagged(totals, tag) ==
    IF \E i \in 1..Len(totals) : totals[i].type = tag
    THEN CHOOSE i \in 1..Len(totals) :
            /\ totals[i].type = tag
            /\ \A j \in 1..(i - 1) : totals[j].type # tag
    ELSE 0

\* C3: totals are extracted by first match, never by sum: subtotal is the
\* first "subtotal" amount, else 0; total the first "total" amount, else the
\* subtotal; shipping_cost and discount the first "fulfillment" and
\* "discount" amounts, else null.
C3_FirstMatch ==
    HasSession =>
        LET totals == Get(Translated, "totals", <<>>)
            at(tag) == totals[FirstTagged(totals, tag)].amount
            has(tag) == FirstTagged(totals, tag) # 0
        IN  /\ Session.subtotal = IF has("subtotal") THEN at("subtotal") ELSE 0
            /\ Session.total = IF has("total") THEN at("total") ELSE Session.subtotal
            /\ Session.shipping_cost = IF has("fulfillment") THEN Some(at("fulfillment")) ELSE None
            /\ Session.discount = IF has("discount") THEN Some(at("discount")) ELSE None

\* the totals [subtotal 500, subtotal 999] gave subtotal 500 and, with no
\* "total" entry, total 500
C3_Witness ==
    /\ op = "translate"
    /\ HasSession
    /\ Get(Translated, "totals", <<>>) =
            <<[type |-> "subtotal", amount |-> 500], [type |-> "subtotal", amount |-> 999]>>
    /\ Session.subtotal = 500
    /\ Session.total = 500
    /\ Session.shipping_cost = None

\* the request of an update supplies no items: body.items omitted or empty
NoItems == req.items = None \/ req.items = Some(<<>>)

\* C4: on update with no items in the request, the line items sent to
\* engine.update are the stored ones, in order, with the same id, item id,
\* title and quantity; the list is empty only when the stored list is.
C4_ItemsKept ==
    (UpdateSent /\ NoItems) =>
        LET stored == Existing.line_items
            sent == UpdateRequest.line_items
        IN  /\ Len(sent) = Len(stored)
            /\ \A i \in 1..Len(stored) :
                /\ sent[i].id = Some(stored[i].id)
                /\ sent[i].item.id = stored[i].item.id
                /\ sent[i].item.title = stored[i].item.title
                /\ sent[i].quantity = stored[i].quantity

\* an update without items on a checkout of two stored line items sent both
C4_Witness ==
    /\ UpdateSent
    /\ req.items = None
    /\ Existing.line_items = <<LI_1, LI_2>>
    /\ Len(UpdateRequest.line_items) = 2
    /\ UpdateRequest.line_items[2].item.id = "sku_2"

\* C5: on update of a session with a stored buyer, when the request omits
\* buyer, the buyer sent to engine.update is the stored buyer, every field
\* unchanged, never null.
C5_BuyerKept ==
    (UpdateSent /\ req.buyer = None /\ Existing.buyer # None) =>
        /\ UpdateRequest.buyer # None
        /\ UpdateRequest.buyer = Existing.buyer

\* an update without buyer forwarded the stored buyer a@b.com
C5_Witness ==
    /\ UpdateSent
    /\ req.buyer = None
    /\ Existing.buyer = Some([email |-> Some("a@b.com")])
    /\ UpdateRequest.buyer = Some([email |-> Some("a@b.com")])

\* C6: on complete, the credential token passed to engine.complete is the
\* caller's payment_data.token.
C6_TokenForwarded ==
    op = "complete" =>
        \A i \in 1..Len(Val(calls[1].request).instruments) :
            Val(calls[1].request).instruments[i].credential.token = req.payment_data.token

\* the keyword tests on the lower-cased failure text
HasNotFound == Contains(S_not_found, Lower(FailText))
HasNotModifiable == Contains(S_not_modifiable, Lower(FailText))
HasFulfillment == Contains(S_fulfillment, Lower(FailText))
HasCannotCancel == Contains(S_cannot_cancel, Lower(FailText))

\* C7: on complete an engine failure maps to one code by the first matching
\* rule on the lower-cased text: "not found" 404; else "not modifiable" 409;
\* else "fulfillment" 400; else 500 with the engine's message as detail
\* ("cannot cancel" alone is 500).
C7_CompleteErrors ==
    (op = "complete" /\ Failed) =>
        /\ ~HasSession
        /\ HasNotFound => resp.code = 404
        /\ (~HasNotFound /\ HasNotModifiable) => resp.code = 409
        /\ (~HasNotFound /\ ~HasNotModifiable /\ HasFulfillment) => resp.code = 400
        /\ (~HasNotFound /\ ~HasNotModifiable /\ ~HasFulfillment)
                => (resp.code = 500 /\ resp.detail = Some(FailText))

\* complete failed with a text naming both "fulfillment" and "not
\* modifiable" and answered 409
C7_Witness ==
    /\ op = "complete"
    /\ Failed
    /\ HasFulfillment
    /\ HasNotModifiable
    /\ ~HasNotFound
    /\ resp.code = 409

\* C8: the conflict code depends on the operation: "not modifiable" without
\* "not found" is 409 on complete and 405 on cancel.  On cancel "not found"
\* is 404, else "not modifiable" or "cannot cancel" is 405, else 500; never
\* 409 or 400 ("fulfillment" alone is 500).
C8_CancelErrors ==
    /\ (op = "complete" /\ Failed /\ HasNotModifiable /\ ~HasNotFound) => resp.code = 409
    /\ (op = "cancel" /\ Failed) =>
        /\ ~HasSession
        /\ HasNotFound => resp.code = 404
        /\ (~HasNotFound /\ (HasNotModifiable \/ HasCannotCancel)) => resp.code = 405
        /\ (~HasNotFound /\ ~HasNotModifiable /\ ~HasCannotCancel)
                => (resp.code = 500 /\ resp.detail = Some(FailText))
        /\ resp.code \notin {409, 400}

\* cancel failed with "NOT MODIFIABLE" and answered 405
C8_Witness ==
    /\ op = "cancel"
    /\ Failed
    /\ FailText = Upper(S_not_modifiable)
    /\ resp.code = 405

\* C9: on update an engine failure, of engine.get or of engine.update,
\* answers 404 exactly when its text contains "not found", and 500 otherwise.
C9_UpdateErrors ==
    (op = "update" /\ Failed) =>
        /\ resp.code = 404 <=> HasNotFound
        /\ ~HasNotFound => resp.code = 500

\* the prefix of the keys a handler generates
KeyPrefix ==
    [o \in {"create", "update", "complete", "cancel"} |->
        CASE o = "create" -> P_acp
          [] o = "update" -> P_acp_upd
          [] o = "complete" -> P_acp_complete
          [] o = "cancel" -> P_acp_cancel]

\* C10: every mutating engine call carries a non-empty idempotency key: the
\* caller's key when the header is non-empty, else a generated key that
\* starts with the operation's prefix.
C10_IdempotencyKey ==
    op \in DOMAIN KeyPrefix =>
        \A i \in 1..Len(calls) :
            calls[i].fn # "get_checkout" =>
                /\ calls[i].key # None
                /\ Val(calls[i].key) # <<>>
                /\ (req.idempotency_key # None /\ Val(req.idempotency_key) # <<>>)
                        => calls[i].key = req.idempotency_key
                /\ (req.idempotency_key = None \/ req.idempotency_key = Some(<<>>))
                        => /\ StartsWith(Val(calls[i].key), KeyPrefix[op])
                           /\ Len(Val(calls[i].key)) > Len(KeyPrefix[op])

\* an update with an empty Idempotency-Key header called engine.update with
\* a generated acp_upd_ key
C10_Witness ==
    /\ UpdateSent
    /\ req.idempotency_key = Some(<<>>)
    /\ calls[2].fn = "update_checkout"
    /\ StartsWith(Val(calls[2].key), P_acp_upd)
    /\ Val(calls[2].key) # P_acp_upd

\* the engine operation each handler performs last
EngineOp ==
    [o \in {"create", "retrieve", "update", "complete", "cancel"} |->
        CASE o = "create" -> "create_checkout"
          [] o = "retrieve" -> "get_checkout"
          [] o = "update" -> "update_checkout"
          [] o = "complete" -> "complete_checkout"
          [] o = "cancel" -> "cancel_checkout"]

\* C11: no handler retries: within one request each engine operation is
\* called at most once, no engine call follows a failed one, and a failure
\* is answered with an error.  On update engine.get comes first and
\* engine.update is called only after engine.get succeeded.
C11_NoRetry ==
    /\ \A i, j \in 1..Len(calls) : i # j => calls[i].fn # calls[j].fn
    /\ \A i \in 1..(Len(calls) - 1) : calls[i].error = None
    /\ Failed => (~HasSession /\ resp.code >= 400 /\ resp.detail # None)
    /\ op \in DOMAIN EngineOp =>
        /\ calls # <<>>
        /\ \A i \in 1..Len(calls) :
                calls[i].fn = EngineOp[op] \/ (op = "update" /\ i = 1)
        /\ op # "update" => Len(calls) = 1
        /\ op = "update" =>
            /\ Len(calls) <= 2
            /\ calls[1].fn = "get_checkout"
            /\ Len(calls) = 2 <=> calls[1].error = None

\* an update whose engine.get failed made that one call and answered 404
C11_Witness ==
    /\ op = "update"
    /\ Len(calls) = 1
    /\ calls[1].fn = "get_checkout"
    /\ calls[1].error = Some(F_timeout)
    /\ resp.code = 404
    /\ ~HasSession

\* C12: an assembled line item is named by the engine item's title when
\* that is present and non-empty, and "Unknown" when the title is absent or
\* the empty string; no assembled line item has an empty name.
C12_ItemNames ==
    HasSession =>
        LET lis == Get(Translated, "line_items", <<>>)
        IN  \A i \in 1..Len(lis) :
                LET item == Get(lis[i], "item", <<>>)
                    name == Session.items[i].name
                IN  /\ ("title" \in DOMAIN item /\ item.title # "") => name = item.title
                    /\ ("title" \notin DOMAIN item \/ Get(item, "title", "") = "")
                            => name = "Unknown"
                    /\ name # ""

\* C13: on update of a session with a stored buyer, a request buyer that
\* omits fields is merged with the stored one: a field the request gives
\* takes the request's value, a field it omits keeps the stored value.
C13_BuyerMerged ==
    (UpdateSent /\ req.buyer # None /\ Existing.buyer # None) =>
        /\ UpdateRequest.buyer # None
        /\ \A f \in {"email", "name", "phone"} :
            LET given == Val(req.buyer)[f]
                stored == Get(Val(Existing.buyer), f, None)
                sent == Get(Val(UpdateRequest.buyer), f, None)
            IN  sent = IF given # None THEN given ELSE stored

====
